---------------------------- MODULE Spec2Model ----------------------------
(***************************************************************************)
(* Model of src/modules/analyze_plugins.py: the scan of the configuration  *)
(* files (sequential and multiprocessing.Pool paths), the merge of the     *)
(* per-file results into directly_used_plugins_reasons, the bundled        *)
(* safeguard, resolve_dependencies and the unused-set difference.          *)
(*                                                                         *)
(* A Python dict is modelled as the sequence of its items in insertion     *)
(* order, each item a record [k, v]: dict(...).keys(), .items() and the    *)
(* deque built from them iterate in that order.                            *)
(*                                                                         *)
(* Three specifications share the actions:                                 *)
(*   SpecResolve  resolve_dependencies alone, on any seed map and metadata *)
(*   SpecScan     step 3 of main, on any list of configuration files       *)
(*   Spec         main from step 3 to step 6                               *)
(***************************************************************************)
EXTENDS Integers, Sequences, FiniteSets, TLC

(* ------------------------------ bounds --------------------------------- *)

\* Number of dependency entries, over all the 'dependencies' lists together,
\* in the plugin information handed to resolve_dependencies (SpecResolve).
MaxEdges == 3

\* Number of configuration files find_config_files returns (SpecScan).
MaxFiles == 3

\* Number of configuration files and of dependency entries in a whole run of
\* main (Spec).
MaxMainFiles == 2

MaxMainEdges == 1

(* ------------------------------ universe ------------------------------- *)

\* Plugin short names that occur in the inputs.
PluginIds == {"a", "b", "c"}

\* args.jenkins_home, as path components.
JenkinsHome == <<"var", "jenkins_home">>

\* The paths find_config_files returns, relative to JENKINS_HOME, in the order
\* it returns them.
ConfigPaths ==
    << <<"config.xml">>, <<"jobs", "j1", "config.xml">>, <<"jobs", "j2", "config.xml">>,
       <<"nodes", "n1", "config.xml">>, <<"users", "u1", "config.xml">> >>

\* Values of a plugin="..." attribute, as tokens: "a@1.0", "a@2.0", "b",
\* "c@1.0" and the empty string. The lists are the plugin attributes of the
\* elements of a document, in document order.
MainAttrLists ==
    { << <<"a", "@", "1.0">>, <<"b">> >>,
      << <<"c", "@", "1.0">> >> }

AttrLists ==
    MainAttrLists \cup
    { <<>>,
      << <<"b">>, <<>>, <<"a", "@", "2.0">> >> }

\* A configuration document: whether ET.parse accepts it, and its plugin
\* attributes.
Documents == [parses : BOOLEAN, plugin_attrs : AttrLists]

MainDocuments == [parses : BOOLEAN, plugin_attrs : MainAttrLists]

\* UsageReason values: the f-strings and the literal of lines 81, 168, 182.
DirectlyUsed(relative_path) == [kind |-> "direct", of |-> relative_path]

BundledCore == [kind |-> "bundled", of |-> <<>>]

DependencyOf(id) == [kind |-> "dependency", of |-> <<id>>]

(* ------------------------------ helpers -------------------------------- *)

Min(S) == CHOOSE x \in S : \A y \in S : x <= y

Range(s) == {s[i] : i \in 1..Len(s)}

\* Sequences over S of length at most n.
SeqUpTo(S, n) == UNION {[1..m -> S] : m \in 0..n}

RECURSIVE SumOver(_, _)
SumOver(S, f) ==
    IF S = {} THEN 0
    ELSE LET x == CHOOSE y \in S : TRUE IN f[x] + SumOver(S \ {x}, f)

(* ------------------------------ dicts ---------------------------------- *)

DictKeys(d) == [i \in 1..Len(d) |-> d[i].k]

DictKeySet(d) == {d[i].k : i \in 1..Len(d)}

DictHas(d, key) == key \in DictKeySet(d)

\* d[key], for a key of d.
DictGet(d, key) == d[CHOOSE i \in 1..Len(d) : d[i].k = key].v

\* d[key] = value: a new key is appended, an existing key keeps its place
\* and gets the new value.
DictSet(d, key, value) ==
    IF DictHas(d, key)
    THEN [i \in 1..Len(d) |-> IF d[i].k = key THEN [k |-> key, v |-> value] ELSE d[i]]
    ELSE Append(d, [k |-> key, v |-> value])

\* The dict with the keys ks, in that order, and the values f[key].
MkDict(ks, f) == [i \in 1..Len(ks) |-> [k |-> ks[i], v |-> f[ks[i]]]]

(* ------------------------------ state ---------------------------------- *)

VARIABLES
    pc,                             \* position in main / resolve_dependencies
    installed_plugins,              \* set of installed ids (line 100)
    all_plugins_info,               \* dict shortName -> plugin info (lines 103-150)
    config_files,                   \* list of configuration files (line 156)
    cpu,                            \* cpu_count() (line 159)
    max_workers,                    \* line 159
    next_task,                      \* Pool: index of the next file to hand out
    worker_task,                    \* Pool: the file each worker is busy with, 0 if idle
    results,                        \* Pool: the list pool.map builds (line 162)
    completed,                      \* history: file indexes in order of completion
    scan_i,                         \* index of the for loops of lines 165 and 172
    directly_used_plugins_reasons,  \* dict plugin id -> reason (line 155)
    resolved_reasons,               \* dict plugin id -> reason (line 70)
    queue,                          \* deque of plugin ids (line 71)
    plugin_id,                      \* the id popped last (line 74)
    deps_left,                      \* rest of the for loop of line 78
    enqueued,                       \* history: every id ever put on queue
    active_plugins_reasons,         \* result of resolve_dependencies (line 185)
    unused_plugins                  \* line 190

inputVars == <<installed_plugins, all_plugins_info, config_files, cpu>>

scanVars == <<max_workers, next_task, worker_task, results, completed, scan_i>>

resolveVars == <<resolved_reasons, queue, plugin_id, deps_left, enqueued>>

vars == <<pc, inputVars, scanVars, directly_used_plugins_reasons, resolveVars,
          active_plugins_reasons, unused_plugins>>

(* ------------------------------- scan ---------------------------------- *)

\* Line 56: plugin_attr.split('@')[0], the tokens before the first '@'
\* joined: a name is one token, so none or one token.
ShortNameOf(plugin_attr) ==
    LET ats == {i \in 1..Len(plugin_attr) : plugin_attr[i] = "@"}
        head == IF ats = {} THEN plugin_attr ELSE SubSeq(plugin_attr, 1, Min(ats) - 1)
    IN  IF head = <<>> THEN "" ELSE head[1]

\* Lines 53-57: the loop over the elements that carry a plugin attribute.
RECURSIVE CollectAttrs(_, _, _)
CollectAttrs(used_plugins, plugin_attrs, file_path) ==
    IF plugin_attrs = <<>> THEN used_plugins
    ELSE CollectAttrs(
            IF Head(plugin_attrs) # <<>>
            THEN DictSet(used_plugins, ShortNameOf(Head(plugin_attrs)), file_path)
            ELSE used_plugins,
            Tail(plugin_attrs), file_path)

\* Line 51: what ET.parse raises on the document.
Raised(file) == IF file.parses THEN "none" ELSE "ParseError"

\* Line 58: the exceptions the except clause catches.
Caught(exception) == exception = "ParseError"

\* An exception leaves find_used_plugins_in_xml, and then main.
Propagates(file) == Raised(file) # "none" /\ ~Caught(Raised(file))

\* A parser that keeps what it read before the error.
find_used_plugins_in_xml_Partial(file) ==
    CollectAttrs(<<>>, file.plugin_attrs, file.file_path)

\* Lines 47-61: ET.parse raises ParseError before any plugin is recorded, the
\* except clause prints a warning and the empty dict is returned.
find_used_plugins_in_xml(file) ==
    IF Raised(file) = "none"
    THEN CollectAttrs(<<>>, file.plugin_attrs, file.file_path)
    ELSE <<>>

\* Lines 63-66.
process_config_file(file) ==
    [file_path |-> file.file_path, plugins_in_file |-> find_used_plugins_in_xml(file)]

\* os.path.relpath(path, start) on normalised absolute paths.
RelPath(path, start) ==
    LET common == {n \in 0..Min({Len(path), Len(start)}) : SubSeq(path, 1, n) = SubSeq(start, 1, n)}
        c == CHOOSE n \in common : \A m \in common : m <= n
    IN  [i \in 1..(Len(start) - c) |-> ".."] \o SubSeq(path, c + 1, Len(path))

\* A merge that keeps the reason an id already has.
SetReason_KeepFirst(reasons, id, reason) ==
    IF DictHas(reasons, id) THEN reasons ELSE DictSet(reasons, id, reason)

\* Lines 168-169 and 176-177: directly_used_plugins_reasons[plugin_id] = ...
SetReason(reasons, id, reason) == DictSet(reasons, id, reason)

\* Lines 166-169 and 174-177: the loop over plugins_in_file.items().
RECURSIVE MergeFile(_, _)
MergeFile(reasons, plugins_in_file) ==
    IF plugins_in_file = <<>> THEN reasons
    ELSE MergeFile(
            SetReason(reasons, Head(plugins_in_file).k,
                      DirectlyUsed(RelPath(Head(plugins_in_file).v, JenkinsHome))),
            Tail(plugins_in_file))

\* Line 159: the cap on the number of workers.
PoolCap == 8

NoResult == [file_path |-> <<>>, plugins_in_file |-> <<>>]

\* Lines 159-161, 170-172: the choice of the path, and the start of its loop.
StartScan ==
    /\ pc = "scan"
    /\ max_workers' = Min({cpu, Len(config_files), PoolCap})
    /\ IF Len(config_files) > 1 /\ Min({cpu, Len(config_files), PoolCap}) > 1
       THEN /\ pc' = "pool"
            /\ worker_task' = [w \in 1..Min({cpu, Len(config_files), PoolCap}) |-> 0]
            /\ results' = [i \in 1..Len(config_files) |-> NoResult]
       ELSE /\ pc' = IF config_files = <<>> THEN "bundled" ELSE "sequential"
            /\ UNCHANGED <<worker_task, results>>
    /\ next_task' = 1
    /\ scan_i' = 1
    /\ UNCHANGED <<inputVars, completed, directly_used_plugins_reasons, resolveVars,
                   active_plugins_reasons, unused_plugins>>

\* Line 162, in a worker process: an idle worker takes the next file of the
\* task queue (pool.map cuts the list into chunks of one file as long as
\* there are at most four files for each worker).
WorkerTake(w) ==
    /\ pc = "pool"
    /\ worker_task[w] = 0
    /\ next_task <= Len(config_files)
    /\ worker_task' = [worker_task EXCEPT ![w] = next_task]
    /\ next_task' = next_task + 1
    /\ UNCHANGED <<pc, inputVars, max_workers, results, completed, scan_i,
                   directly_used_plugins_reasons, resolveVars, active_plugins_reasons,
                   unused_plugins>>

\* A pool that lists the results in the order the workers deliver them.
StoreResult_ByCompletion(list, i, done, result) == [list EXCEPT ![Len(done) + 1] = result]

\* Line 162: pool.map puts the result of the i-th file at the i-th place of
\* the list it returns.
StoreResult(list, i, done, result) == [list EXCEPT ![i] = result]

\* Line 162, in a worker process: the worker runs process_config_file on its
\* file and hands the result back.
WorkerFinish(w) ==
    /\ pc = "pool"
    /\ worker_task[w] # 0
    /\ results' = StoreResult(results, worker_task[w], completed,
                              process_config_file(config_files[worker_task[w]]))
    /\ completed' = Append(completed, worker_task[w])
    /\ worker_task' = [worker_task EXCEPT ![w] = 0]
    /\ pc' = IF Propagates(config_files[worker_task[w]]) THEN "aborted" ELSE pc
    /\ UNCHANGED <<inputVars, max_workers, next_task, scan_i,
                   directly_used_plugins_reasons, resolveVars, active_plugins_reasons,
                   unused_plugins>>

\* Lines 161-162: pool.map returns when every file has its result, and the
\* with block ends the pool.
PoolJoin ==
    /\ pc = "pool"
    /\ Len(completed) = Len(config_files)
    /\ pc' = "collect"
    /\ UNCHANGED <<inputVars, scanVars, directly_used_plugins_reasons, resolveVars,
                   active_plugins_reasons, unused_plugins>>

\* Lines 165-169: one turn of the loop over results.
CollectResult ==
    /\ pc = "collect"
    /\ directly_used_plugins_reasons' =
          MergeFile(directly_used_plugins_reasons, results[scan_i].plugins_in_file)
    /\ scan_i' = scan_i + 1
    /\ pc' = IF scan_i = Len(results) THEN "bundled" ELSE "collect"
    /\ UNCHANGED <<inputVars, max_workers, next_task, worker_task, results, completed,
                   resolveVars, active_plugins_reasons, unused_plugins>>

\* Lines 172-177: one turn of the loop over config_files.
SequentialStep ==
    /\ pc = "sequential"
    /\ directly_used_plugins_reasons' =
          MergeFile(directly_used_plugins_reasons,
                    find_used_plugins_in_xml(config_files[scan_i]))
    /\ scan_i' = scan_i + 1
    /\ pc' = IF Propagates(config_files[scan_i]) THEN "aborted"
             ELSE IF scan_i = Len(config_files) THEN "bundled" ELSE "sequential"
    /\ UNCHANGED <<inputVars, max_workers, next_task, worker_task, results, completed,
                   resolveVars, active_plugins_reasons, unused_plugins>>

(* --------------------------- bundled plugins --------------------------- *)

\* A safeguard that does not test whether the id is a seed already.
RECURSIVE AddBundledPlugins_Overwrite(_, _)
AddBundledPlugins_Overwrite(reasons, items) ==
    IF items = <<>> THEN reasons
    ELSE AddBundledPlugins_Overwrite(
            IF Head(items).v.bundled
            THEN DictSet(reasons, Head(items).k, BundledCore)
            ELSE reasons,
            Tail(items))

\* Lines 180-182: the loop over all_plugins_info.items().
RECURSIVE AddBundledPlugins(_, _)
AddBundledPlugins(reasons, items) ==
    IF items = <<>> THEN reasons
    ELSE AddBundledPlugins(
            IF Head(items).v.bundled /\ ~DictHas(reasons, Head(items).k)
            THEN DictSet(reasons, Head(items).k, BundledCore)
            ELSE reasons,
            Tail(items))

AddBundled ==
    /\ pc = "bundled"
    /\ directly_used_plugins_reasons' =
          AddBundledPlugins(directly_used_plugins_reasons, all_plugins_info)
    /\ pc' = "resolve"
    /\ UNCHANGED <<inputVars, scanVars, resolveVars, active_plugins_reasons, unused_plugins>>

(* ------------------------ resolve_dependencies ------------------------- *)

\* Lines 70-71: copy the seeds, queue their keys in dict order.
ResolveStart ==
    /\ pc = "resolve"
    /\ resolved_reasons' = directly_used_plugins_reasons
    /\ queue' = DictKeys(directly_used_plugins_reasons)
    /\ enqueued' = DictKeys(directly_used_plugins_reasons)
    /\ pc' = "while"
    /\ UNCHANGED <<inputVars, scanVars, directly_used_plugins_reasons, plugin_id,
                   deps_left, active_plugins_reasons, unused_plugins>>

\* A loop that stops after the first dependency.
DependenciesOf_FirstOnly(info, id) ==
    IF DictHas(info, id) /\ DictGet(info, id).has_dependencies
    THEN SubSeq(DictGet(info, id).dependencies, 1, Min({1, Len(DictGet(info, id).dependencies)}))
    ELSE <<>>

\* Lines 75, 77: all_plugins_info.get(plugin_id), then the dependencies the
\* for loop will walk: none when the id has no entry or the entry has no
\* 'dependencies' key.
DependenciesOf(info, id) ==
    IF DictHas(info, id) /\ DictGet(info, id).has_dependencies
    THEN DictGet(info, id).dependencies
    ELSE <<>>

\* A loop that reads queue[0] and leaves it on the queue.
PopLeft_Peek(q) == q

\* Line 74: queue.popleft() leaves the rest of the queue.
PopLeft(q) == Tail(q)

\* Lines 73-77: one turn of the while loop up to the for loop.
Dequeue ==
    /\ pc = "while"
    /\ queue # <<>>
    /\ plugin_id' = Head(queue)
    /\ queue' = PopLeft(queue)
    /\ deps_left' = DependenciesOf(all_plugins_info, Head(queue))
    /\ pc' = IF DependenciesOf(all_plugins_info, Head(queue)) # <<>> THEN "for" ELSE "while"
    /\ UNCHANGED <<inputVars, scanVars, directly_used_plugins_reasons, resolved_reasons,
                   enqueued, active_plugins_reasons, unused_plugins>>

\* A loop without the test of line 80.
ShouldInsert_Always(reasons, dep_id) == TRUE

\* Line 80: the test that guards the insertion of a dependency.
ShouldInsert(reasons, dep_id) == ~DictHas(reasons, dep_id)

\* A reason formatted with dep_id in the place of plugin_id.
InsertDependency_NamesItself(reasons, dep_id, current_id) ==
    DictSet(reasons, dep_id, DependencyOf(dep_id))

\* Line 81: resolved_reasons[dep_id] = f"Dependency of '{plugin_id}'".
InsertDependency(reasons, dep_id, current_id) ==
    DictSet(reasons, dep_id, DependencyOf(current_id))

\* Lines 78-82: one turn of the for loop.
VisitDep ==
    /\ pc = "for"
    /\ LET dep_id == Head(deps_left).shortName IN
       IF ShouldInsert(resolved_reasons, dep_id)
       THEN /\ resolved_reasons' = InsertDependency(resolved_reasons, dep_id, plugin_id)
            /\ queue' = Append(queue, dep_id)
            /\ enqueued' = Append(enqueued, dep_id)
       ELSE UNCHANGED <<resolved_reasons, queue, enqueued>>
    /\ deps_left' = Tail(deps_left)
    /\ pc' = IF Tail(deps_left) # <<>> THEN "for" ELSE "while"
    /\ UNCHANGED <<inputVars, scanVars, directly_used_plugins_reasons, plugin_id,
                   active_plugins_reasons, unused_plugins>>

\* Lines 83, 185: the queue is empty, the result is returned to main.
Return ==
    /\ pc = "while"
    /\ queue = <<>>
    /\ active_plugins_reasons' = resolved_reasons
    /\ pc' = "diff"
    /\ UNCHANGED <<inputVars, scanVars, directly_used_plugins_reasons, resolveVars,
                   unused_plugins>>

(* ------------------------------- diff ---------------------------------- *)

\* A symmetric difference in the place of the difference.
Unused_SymmetricDifference(installed, active_plugin_ids) ==
    (installed \ active_plugin_ids) \cup (active_plugin_ids \ installed)

\* Line 190: installed_plugins - active_plugin_ids.
Unused(installed, active_plugin_ids) == installed \ active_plugin_ids

\* Lines 187-190.
Diff ==
    /\ pc = "diff"
    /\ unused_plugins' = Unused(installed_plugins, DictKeySet(active_plugins_reasons))
    /\ pc' = "done"
    /\ UNCHANGED <<inputVars, scanVars, directly_used_plugins_reasons, resolveVars,
                   active_plugins_reasons>>

(* ------------------------------ inputs --------------------------------- *)

\* Sequences over S without repetition, of any length: the key orders of the
\* dicts whose keys are in S.
KeyOrders(S) == {s \in SeqUpTo(S, Cardinality(S)) : \A i, j \in 1..Len(s) : s[i] = s[j] => i = j}

\* The order in which the plugin manager lists the plugins it knows.
ListingOrder == <<"a", "b", "c">>

DepLists(n) == SeqUpTo([shortName : PluginIds], n)

\* What an entry of data['plugins'] holds besides its shortName: 'bundled'
\* (absent reads as False, line 181), and 'dependencies', which may be absent
\* (line 77).
InfoBodies(flags, keyless, n) ==
    {[bundled |-> b, has_dependencies |-> TRUE, dependencies |-> ds] :
        b \in flags, ds \in DepLists(n)}
    \cup {[bundled |-> b, has_dependencies |-> FALSE, dependencies |-> <<>>] :
        b \in IF keyless THEN flags ELSE {}}

\* Lines 130-131, 149-150: all_plugins_info[p['shortName']] = p for the
\* entries of data['plugins'], here one entry for each id of S.
PluginsInfo(S, body) ==
    MkDict(SelectSeq(ListingOrder, LAMBDA id : id \in S),
           [id \in S |-> [shortName |-> id, bundled |-> body[id].bundled,
                          has_dependencies |-> body[id].has_dependencies,
                          dependencies |-> body[id].dependencies]])

\* The plugin information with at most n dependency entries in all, each
\* 'bundled' flag from flags, with entries that lack 'dependencies' if keyless.
PluginsInfos(flags, keyless, n) ==
    UNION {{PluginsInfo(S, body) :
              body \in {f \in [S -> InfoBodies(flags, keyless, n)] :
                          SumOver(S, [id \in S |-> Len(f[id].dependencies)]) <= n}} :
           S \in SUBSET PluginIds}

\* The lists of at most n configuration files, the i-th at the i-th path.
ConfigFileLists(Docs, n) ==
    UNION {{[i \in 1..m |-> [file_path |-> JenkinsHome \o ConfigPaths[i],
                             parses |-> docs[i].parses,
                             plugin_attrs |-> docs[i].plugin_attrs]] :
              docs \in [1..m -> Docs]} : m \in 0..n}

\* The reason of each seed, a different one for each id, of the two kinds main
\* gives a seed (lines 168, 182).
SeedReason ==
    [id \in PluginIds |->
        CASE id = "a" -> DirectlyUsed(ConfigPaths[1])
          [] id = "b" -> BundledCore
          [] OTHER -> DirectlyUsed(ConfigPaths[2])]

\* The seed maps: any keys in any order.
SeedMaps == {MkDict(ks, SeedReason) : ks \in KeyOrders(PluginIds)}

ScanIdle ==
    /\ max_workers = 0
    /\ next_task = 1
    /\ worker_task = <<>>
    /\ results = <<>>
    /\ completed = <<>>
    /\ scan_i = 1

ResolveIdle ==
    /\ resolved_reasons = <<>>
    /\ queue = <<>>
    /\ plugin_id = ""
    /\ deps_left = <<>>
    /\ enqueued = <<>>
    /\ active_plugins_reasons = <<>>
    /\ unused_plugins = {}

(* --------------------------- specifications ---------------------------- *)

\* main after steps 1 and 2: the installed list and the plugin information
\* are read, nothing is scanned yet. More CPUs than files change nothing
\* (line 159).
Init ==
    /\ pc = "scan"
    /\ installed_plugins \in SUBSET PluginIds
    /\ all_plugins_info \in PluginsInfos(BOOLEAN, FALSE, MaxMainEdges)
    /\ config_files \in ConfigFileLists(MainDocuments, MaxMainFiles)
    /\ cpu \in 1..MaxMainFiles
    /\ directly_used_plugins_reasons = <<>>
    /\ ScanIdle
    /\ ResolveIdle

Next ==
    \/ StartScan
    \/ \E w \in DOMAIN worker_task : WorkerTake(w)
    \/ \E w \in DOMAIN worker_task : WorkerFinish(w)
    \/ PoolJoin
    \/ CollectResult
    \/ SequentialStep
    \/ AddBundled
    \/ ResolveStart
    \/ Dequeue
    \/ VisitDep
    \/ Return
    \/ Diff

Spec == Init /\ [][Next]_vars

\* Step 3 of main alone.
InitScan ==
    /\ pc = "scan"
    /\ installed_plugins = {}
    /\ all_plugins_info = <<>>
    /\ config_files \in ConfigFileLists(Documents, MaxFiles)
    /\ cpu \in 1..MaxFiles
    /\ directly_used_plugins_reasons = <<>>
    /\ ScanIdle
    /\ ResolveIdle

NextScan ==
    \/ StartScan
    \/ \E w \in DOMAIN worker_task : WorkerTake(w)
    \/ \E w \in DOMAIN worker_task : WorkerFinish(w)
    \/ PoolJoin
    \/ CollectResult
    \/ SequentialStep

SpecScan == InitScan /\ [][NextScan]_vars

\* resolve_dependencies alone.
InitResolve ==
    /\ pc = "resolve"
    /\ installed_plugins = {}
    /\ all_plugins_info \in PluginsInfos({FALSE}, TRUE, MaxEdges)
    /\ config_files = <<>>
    /\ cpu = 1
    /\ directly_used_plugins_reasons \in SeedMaps
    /\ ScanIdle
    /\ ResolveIdle

NextResolve == ResolveStart \/ Dequeue \/ VisitDep \/ Return

SpecResolve == InitResolve /\ [][NextResolve]_vars

\* The loop of resolve_dependencies runs to its end without being suspended.
SpecResolveFair == SpecResolve /\ WF_vars(NextResolve)

(* ------------------- claims on resolve_dependencies -------------------- *)

SeedIds == DictKeySet(directly_used_plugins_reasons)

InfoIds == DictKeySet(all_plugins_info)

\* The ids the metadata entry of id declares as its dependencies.
DeclaredDeps(id) ==
    IF id \in InfoIds /\ DictGet(all_plugins_info, id).has_dependencies
    THEN {d.shortName : d \in Range(DictGet(all_plugins_info, id).dependencies)}
    ELSE {}

\* The ids reachable from S through zero or more dependency edges.
RECURSIVE ReachableFrom(_)
ReachableFrom(S) ==
    LET more == S \cup UNION {DeclaredDeps(id) : id \in S}
    IN  IF more = S THEN S ELSE ReachableFrom(more)

Returned == pc = "diff"

Started == pc \in {"while", "for", "diff"}

\* The ids popped so far, in the order they were popped.
Dequeued == SubSeq(enqueued, 1, Len(enqueued) - Len(queue))

\* C1: the keys resolve_dependencies returns are exactly the ids reachable
\* from the seeds through the dependency edges of the metadata: every seed,
\* every declared dependency of a member, and nothing unreachable.
C1_ExactClosure ==
    /\ Started => DictKeySet(resolved_reasons) \subseteq ReachableFrom(SeedIds)
    /\ Returned =>
         LET K == DictKeySet(active_plugins_reasons) IN
         /\ SeedIds \subseteq K
         /\ \A id \in K : DeclaredDeps(id) \subseteq K
         /\ K = ReachableFrom(SeedIds)

\* A run returned whose closure has a self-loop, a key with no metadata entry,
\* a key that is no seed, and leaves out an unreachable id.
C1_Witness ==
    /\ Returned
    /\ LET K == DictKeySet(active_plugins_reasons) IN
       /\ \E id \in K : id \in DeclaredDeps(id)
       /\ \E id \in K : id \notin InfoIds
       /\ K # SeedIds
       /\ K # PluginIds

NoDoubleEnqueue == \A i, j \in 1..Len(enqueued) : enqueued[i] = enqueued[j] => i = j

\* C2: no id is put on the queue twice, and the loop, left to run, reaches the
\* empty queue and returns, whether the dependency edges form cycles or not.
C2_Terminates == []NoDoubleEnqueue /\ <>Returned

\* A run returned after walking a cycle of three plugins from one seed.
C2_Witness ==
    /\ Returned
    /\ Len(enqueued) = 3
    /\ \A id \in PluginIds : DeclaredDeps(id) # {} /\ id \notin DeclaredDeps(id)
    /\ Len(directly_used_plugins_reasons) = 1

\* The ids named in some dependency list that have no metadata entry.
UnknownDepIds == (UNION {DeclaredDeps(id) : id \in InfoIds}) \ InfoIds

\* C3 as stated: the result has at most |seeds| + |metadata| keys, and the
\* loop pops at most that many ids.
C3_SizeBound ==
    Returned =>
        /\ Len(active_plugins_reasons) <= Len(directly_used_plugins_reasons) + Len(all_plugins_info)
        /\ Len(Dequeued) <= Len(directly_used_plugins_reasons) + Len(all_plugins_info)

\* C3 amended: the number of keys of the result, and the number of ids popped,
\* is at most |seeds| + |metadata| + the number of ids that dependency lists
\* name without a metadata entry of their own; on return the two are equal.
C3_SizeBoundWithUnknown ==
    LET bound == Len(directly_used_plugins_reasons) + Len(all_plugins_info)
                   + Cardinality(UnknownDepIds)
    IN  /\ Started => Len(resolved_reasons) <= bound /\ Len(Dequeued) <= bound
        /\ Returned => /\ Len(active_plugins_reasons) <= bound
                       /\ Len(Dequeued) = Len(active_plugins_reasons)

\* A run returned with more keys than |seeds| + |metadata|.
C3_Witness ==
    /\ Returned
    /\ Len(active_plugins_reasons) > Len(directly_used_plugins_reasons) + Len(all_plugins_info)
    /\ UnknownDepIds # {}

DependencyReasonsSound(reasons) ==
    \A i \in 1..Len(reasons) :
        reasons[i].v.kind = "dependency" =>
            LET d == reasons[i].k
                x == reasons[i].v.of[1]
            IN  /\ DictHas(reasons, x)
                /\ x \in InfoIds
                /\ d \in DeclaredDeps(x)
                /\ d \notin SeedIds
                /\ d \in ReachableFrom(SeedIds)

\* C6: in every state of resolve_dependencies, every key d with the reason
\* DependencyOf(x) has x among the keys, x has a metadata entry that lists d,
\* d is no seed, and d is reachable from a seed.
C6_DependencyReasons ==
    /\ Started => DependencyReasonsSound(resolved_reasons)
    /\ Returned => DependencyReasonsSound(active_plugins_reasons)

\* Inside the for loop, a key is a dependency of a key that is a dependency.
C6_Witness ==
    /\ pc = "for"
    /\ \E i, j \in 1..Len(resolved_reasons) :
          /\ resolved_reasons[i].v.kind = "dependency"
          /\ resolved_reasons[j].v = DependencyOf(resolved_reasons[i].k)

\* The first popped id that declares d.
FirstDeclarer(d) ==
    Dequeued[CHOOSE i \in 1..Len(Dequeued) :
                /\ d \in DeclaredDeps(Dequeued[i])
                /\ \A j \in 1..(i - 1) : d \notin DeclaredDeps(Dequeued[j])]

\* C9: a step of resolve_dependencies only adds keys, it changes no reason;
\* so every seed keeps the reason of the seed map, and on return a key that is
\* no seed has the reason naming the first popped plugin that declared it.
C9_ReasonsKept ==
    /\ [](Started => \A id \in SeedIds :
              /\ DictHas(resolved_reasons, id)
              /\ DictGet(resolved_reasons, id) = DictGet(directly_used_plugins_reasons, id))
    /\ [](Returned => \A id \in DictKeySet(active_plugins_reasons) \ SeedIds :
              DictGet(active_plugins_reasons, id) = DependencyOf(FirstDeclarer(id)))
    /\ [][Started => /\ Len(resolved_reasons') >= Len(resolved_reasons)
                     /\ \A i \in 1..Len(resolved_reasons) :
                           resolved_reasons'[i] = resolved_reasons[i]]_vars

\* A run returned in which a seed is declared by a seed popped before it, and
\* a key that is no seed is declared by two popped plugins.
C9_Witness ==
    /\ Returned
    /\ \E i, j \in 1..Len(directly_used_plugins_reasons) :
          /\ i < j
          /\ directly_used_plugins_reasons[j].k \in DeclaredDeps(directly_used_plugins_reasons[i].k)
    /\ \E d \in DictKeySet(active_plugins_reasons) \ SeedIds :
          \E x, y \in DictKeySet(active_plugins_reasons) :
              x # y /\ d \in DeclaredDeps(x) /\ d \in DeclaredDeps(y)

(* ------------------------- claims on the scan -------------------------- *)

\* The scan of step 3 is over and step 4 has not changed the seed map yet.
ScanDone == pc = "bundled"

\* The plugin ids a document names: the part before '@' of each attribute
\* that is not empty.
NamedIn(file) ==
    {file.plugin_attrs[n][1] : n \in {m \in 1..Len(file.plugin_attrs) : file.plugin_attrs[m] # <<>>}}

\* The files, by index, that parse and name id.
FilesFinding(id) ==
    {i \in 1..Len(config_files) : config_files[i].parses /\ id \in NamedIn(config_files[i])}

FoundIds == {id \in PluginIds : FilesFinding(id) # {}}

Max(S) == CHOOSE x \in S : \A y \in S : y <= x

\* C5 as stated: after the merge the reason of an id names the first file, in
\* scan order, that references it.
C5_FirstFileKept ==
    ScanDone =>
        \A n \in 1..Len(directly_used_plugins_reasons) :
            directly_used_plugins_reasons[n].v =
                DirectlyUsed(ConfigPaths[Min(FilesFinding(directly_used_plugins_reasons[n].k))])

\* C5 amended: after the merge the keys are the ids some parsed file
\* references, and the reason of each names the last file, in scan order, that
\* references it: the merge of a later file replaces the reason.
C5_LastFileKept ==
    ScanDone =>
        /\ DictKeySet(directly_used_plugins_reasons) = FoundIds
        /\ \A n \in 1..Len(directly_used_plugins_reasons) :
              directly_used_plugins_reasons[n].v =
                  DirectlyUsed(ConfigPaths[Max(FilesFinding(directly_used_plugins_reasons[n].k))])

\* The scan is over and three files reference the same id.
C5_Witness ==
    /\ ScanDone
    /\ \E id \in PluginIds : Cardinality(FilesFinding(id)) = 3

\* The seed map the loop of lines 172-177 builds from the files, in order.
RECURSIVE ScanInOrder(_, _)
ScanInOrder(reasons, files) ==
    IF files = <<>> THEN reasons
    ELSE ScanInOrder(MergeFile(reasons, find_used_plugins_in_xml(Head(files))), Tail(files))

WellFormed(file) == file.parses

\* C8: a document that does not parse contributes nothing: the merged map is
\* the one the other files alone give, every file is visited, and the scan
\* is not aborted.
C8_MalformedSkipped ==
    /\ ScanDone =>
          /\ directly_used_plugins_reasons =
                ScanInOrder(<<>>, SelectSeq(config_files, WellFormed))
          /\ config_files # <<>> => scan_i = Len(config_files) + 1
    /\ pc # "aborted"

\* The scan is over, a malformed document that names plugins lies between two
\* documents that parse, and the last one set a reason.
C8_Witness ==
    /\ ScanDone
    /\ Len(config_files) = 3
    /\ config_files[1].parses /\ ~config_files[2].parses /\ config_files[3].parses
    /\ NamedIn(config_files[2]) # {}
    /\ NamedIn(config_files[2]) \cap DictKeySet(directly_used_plugins_reasons) = {}
    /\ \E n \in 1..Len(directly_used_plugins_reasons) :
          directly_used_plugins_reasons[n].v = DirectlyUsed(ConfigPaths[3])

\* C10: on the pool path nothing is merged before every file has its result
\* and every worker is idle, and for every number of workers, every
\* assignment of files to workers and every order of completion the seed map
\* is the one the sequential loop gives for the same list.
C10_ParallelDeterministic ==
    /\ pc = "pool" => directly_used_plugins_reasons = <<>>
    /\ pc = "collect" =>
          /\ Len(completed) = Len(config_files)
          /\ \A w \in DOMAIN worker_task : worker_task[w] = 0
          /\ \A i \in 1..Len(config_files) :
                results[i] = process_config_file(config_files[i])
    /\ ScanDone => directly_used_plugins_reasons = ScanInOrder(<<>>, config_files)

\* The pool path is over with three workers, the files completed in the
\* reverse of their order, and two files reference the same id.
C10_Witness ==
    /\ ScanDone
    /\ max_workers = 3
    /\ completed = <<3, 2, 1>>
    /\ \E id \in PluginIds : Cardinality(FilesFinding(id)) >= 2

(* ------------------------ claims on a whole run ------------------------ *)

Done == pc = "done"

BundledIds == {id \in InfoIds : DictGet(all_plugins_info, id).bundled}

\* C4: a bundled plugin is a key of the active set and not in the unused set,
\* installed or not, referenced or not; its reason is BundledCore exactly when
\* no scanned file yields a reference to it, else the reason the scan gave it.
C4_BundledActive ==
    Done =>
        \A id \in BundledIds :
            /\ DictHas(active_plugins_reasons, id)
            /\ id \notin unused_plugins
            /\ DictGet(active_plugins_reasons, id) = BundledCore <=> id \notin FoundIds
            /\ id \in FoundIds =>
                  DictGet(active_plugins_reasons, id) =
                      DictGet(ScanInOrder(<<>>, config_files), id)

\* A run is over in which a bundled plugin that is installed is named only by
\* a malformed file, and another bundled plugin, not installed, is referenced.
C4_Witness ==
    /\ Done
    /\ \E id \in BundledIds \cap installed_plugins :
          /\ id \notin FoundIds
          /\ \E i \in 1..Len(config_files) : id \in NamedIn(config_files[i])
          /\ DictGet(active_plugins_reasons, id) = BundledCore
    /\ \E id \in BundledIds \ installed_plugins :
          /\ id \in FoundIds
          /\ DictGet(active_plugins_reasons, id).kind = "direct"

\* C7: the unused set is disjoint from the active keys, a subset of the
\* installed set, installed - unused = installed /\ keys(active), and an id
\* that is active but not installed is not unused.
C7_UnusedAlgebra ==
    Done =>
        LET active == DictKeySet(active_plugins_reasons) IN
        /\ unused_plugins \cap active = {}
        /\ unused_plugins \subseteq installed_plugins
        /\ installed_plugins \ unused_plugins = installed_plugins \cap active
        /\ \A id \in active \ installed_plugins : id \notin unused_plugins

\* A run is over with an unused plugin, an active plugin that is installed and
\* an active plugin that is not.
C7_Witness ==
    /\ Done
    /\ unused_plugins # {}
    /\ DictKeySet(active_plugins_reasons) \cap installed_plugins # {}
    /\ DictKeySet(active_plugins_reasons) \ installed_plugins # {}

=============================================================================
